---------------------------- MODULE Spec2Model ----------------------------
(***************************************************************************)
(* State-machine model of the ssh-scp-manager helpers:                     *)
(*   - src/src/lib.rs      random values (secure and non-secure), tmp_path *)
(*   - src/src/ssh/aws.rs  Command::download_file / download_directory     *)
(*                         Command::send_file / send_directory             *)
(*                                                                         *)
(* Strings are sequences of one-character strings, byte buffers are        *)
(* sequences of 0..255.  A 256-bit integer is kept the way the U256 type   *)
(* keeps it, as four 64-bit words (word 0 least significant); a 64-bit     *)
(* word is kept as its eight base-256 digits (digit 0 least significant).  *)
(***************************************************************************)
EXTENDS Integers, Sequences, FiniteSets, TLC

VARIABLES
    once,      \* state of the Once guarding the lazy static RANDOM
    cell,      \* the lazy static's cell: 0 = None, k > 0 = Some(k-th handle built)
    inits,     \* how many times the initializer SystemRandom::new() has run
    pc,        \* pc[t]: where thread t is
    op,        \* op[t]: the public function thread t called, with its arguments
    got,       \* got[t]: the handle secure_random() handed to t (0 = none yet)
    buf,       \* buf[t]: the random bytes drawn by the current call
    ret,       \* ret[t]: what the call handed back
    used,      \* used[t]: the generators the current call has drawn from
    fills,     \* fills[t]: the answers of the fill attempts the current call has made
    tmp_dir,   \* what env::temp_dir() answers
    fs,        \* the local paths that exist
    xfer,      \* the transfer call in progress (ssh/aws.rs)
    cmds       \* the external commands the transfer call has run, in order

vars == <<once, cell, inits, pc, op, got, buf, ret, used, fills, tmp_dir, fs, xfer, cmds>>

randVars == <<once, cell, inits, pc, op, got, buf, ret, used, fills>>
xferVars == <<xfer, cmds>>

----------------------------------------------------------------------------
(* Bounds of the model *)

\* number of threads in the concurrent specification
NumThreads == 2
\* buffers of up to MaxN bytes are drawn in full (every content over ByteVals)
MaxN == 3

\* byte contents the OS source is drawn from: zero, a one-digit base58 value,
\* the first two-digit base58 value, and the largest byte
ByteVals == {0, 1, 58, 255}

\* tmp_path(10, Some(".zstd")) of test_temp_path
TestLen == 10
H160Len == 20
H256Len == 32
U256Len == 32
U64Len == 8

Threads == 1..NumThreads
MainThread == 1

----------------------------------------------------------------------------
(* Strings and bytes *)

Reverse(s) == [i \in 1..Len(s) |-> s[Len(s) + 1 - i]]

RECURSIVE LeadingZeros(_)
LeadingZeros(s) ==
    IF s = <<>> \/ Head(s) # 0 THEN 0 ELSE 1 + LeadingZeros(Tail(s))

\* String::truncate(n) on an ASCII string
Truncate(s, n) == IF Len(s) > n THEN SubSeq(s, 1, n) ELSE s

B58Alphabet ==
    << "1","2","3","4","5","6","7","8","9",
       "A","B","C","D","E","F","G","H","J","K","L","M","N","P","Q","R","S","T","U","V","W","X","Y","Z",
       "a","b","c","d","e","f","g","h","i","j","k","m","n","o","p","q","r","s","t","u","v","w","x","y","z" >>

B58Chars == {B58Alphabet[i] : i \in 1..58}

\* inner loop of the encoder: every digit so far times 256 plus the carry
RECURSIVE B58MulAdd(_, _)
B58MulAdd(out, carry) ==
    IF out = <<>> THEN << <<>>, carry >>
    ELSE LET c == carry + Head(out) * 256
             r == B58MulAdd(Tail(out), c \div 58)
         IN  << <<c % 58>> \o r[1], r[2] >>

\* while carry > 0: push carry % 58
RECURSIVE B58Flush(_)
B58Flush(carry) ==
    IF carry = 0 THEN <<>> ELSE <<carry % 58>> \o B58Flush(carry \div 58)

\* the digits (least significant first) after all input bytes are consumed
RECURSIVE B58Digits(_, _)
B58Digits(input, out) ==
    IF input = <<>> THEN out
    ELSE LET r == B58MulAdd(out, Head(input))
         IN  B58Digits(Tail(input), r[1] \o B58Flush(r[2]))

\* an encoder that forgets the leading zero bytes
bs58_encode_no_leading_zeros(input) ==
    LET d == B58Digits(input, <<>>)
    IN  Reverse([i \in 1..Len(d) |-> B58Alphabet[d[i] + 1]])

\* bs58::encode(bytes).into_string(): one '1' per leading zero byte, then the
\* base58 digits of the number, most significant first
bs58_encode(input) ==
    LET d == B58Digits(input, <<>>) \o [i \in 1..LeadingZeros(input) |-> 0]
    IN  Reverse([i \in 1..Len(d) |-> B58Alphabet[d[i] + 1]])

----------------------------------------------------------------------------
(* Fixed-width values *)

\* u64::from_be_bytes on an 8-byte slice: digit j has weight 256^j
from_be_bytes(b) == [j \in 0..7 |-> b[8 - j]]

\* the little-endian reading of the same bytes
U256_from_little_endian(slice) ==
    [w \in 0..3 |-> [j \in 0..7 |-> slice[8 * w + j + 1]]]

\* U256::from_big_endian(&d): pad on the left to 32 bytes, then word 3-i is
\* the big-endian reading of bytes 8i..8i+8
U256_from_big_endian(slice) ==
    LET pad == U256Len - Len(slice)
        padded == [i \in 1..U256Len |-> IF i <= pad THEN 0 ELSE slice[i - pad]]
    IN  [w \in 0..3 |-> from_be_bytes(SubSeq(padded, 8 * (3 - w) + 1, 8 * (3 - w) + 8))]

\* H160::from_slice / H256::from_slice copy the bytes
H_from_slice(d) == d

\* digit k (weight 256^k) of a U256
U256Digit(u, k) == u[k \div 8][k % 8]

\* a prime below 2^16, for checking numeric values by residue
Modulus == 2^16 - 15

RECURSIVE Pow256Mod(_)
Pow256Mod(k) == IF k = 0 THEN 1 ELSE (256 * Pow256Mod(k - 1)) % Modulus

RECURSIVE SumMod(_, _)
SumMod(f, S) ==
    IF S = {} THEN 0
    ELSE LET x == CHOOSE y \in S : TRUE
         IN  (f[x] + SumMod(f, S \ {x})) % Modulus

\* the value of a U256, modulo Modulus
U256ValueMod(u) ==
    SumMod([k \in 0..31 |-> (U256Digit(u, k) * Pow256Mod(k)) % Modulus], 0..31)

\* sum(byte[i] * 256^(31-i)) over a 32-byte buffer (1-indexed here), modulo Modulus
BigEndianValueMod(d) ==
    SumMod([i \in 1..32 |-> (d[i] * Pow256Mod(32 - i)) % Modulus], 1..32)

----------------------------------------------------------------------------
(* Paths *)

Sep == "/"
\* a byte that is not valid UTF-8, as one "character" of an OS string
NonUtf8 == "<FF>"

\* Path::join: an absolute right-hand side replaces the path; otherwise a
\* separator is added unless the left-hand side already ends with one
PathJoin(base, name) ==
    IF name # <<>> /\ Head(name) = Sep THEN name
    ELSE IF base = <<>> \/ base[Len(base)] = Sep THEN base \o name
    ELSE base \o <<Sep>> \o name

\* OsStr::to_str() is Some exactly for valid UTF-8
IsUtf8(p) == \A i \in 1..Len(p) : p[i] # NonUtf8

None == [some |-> FALSE, v |-> <<>>]
Some(s) == [some |-> TRUE, v |-> s]
\* sfx.unwrap_or("")
UnwrapOrEmpty(o) == IF o.some THEN o.v ELSE <<>>

----------------------------------------------------------------------------
(* Results *)

Ok(v) == [kind |-> "Ok", val |-> v]
Err(m) == [kind |-> "Err", val |-> m]
Panic(m) == [kind |-> "Panic", val |-> m]
NoRet == [kind |-> "None", val |-> <<>>]

FillFailed == "failed secure_random.fill"

\* vec![0u8; n]
VecZeroed(n) == [i \in 1..n |-> 0]

\* What SecureRandom::fill(&mut d) can do to the buffer d: fail, or overwrite
\* all of it.  Buffers of up to MaxN bytes take every content over B; longer
\* ones take B everywhere but at one position.
FillOutcomes(d, B) ==
    LET n == Len(d)
    IN  IF n <= MaxN THEN [1..n -> B]
        ELSE {[i \in 1..n |-> IF i = p THEN v ELSE b] : p \in 1..n, v \in B, b \in B}

\* secure_bytes(n), given what fill did (f.ok, f.d)
secure_bytes(n, f) ==
    IF f.ok THEN Ok(f.d) ELSE Err(FillFailed)

\* secure_string(n): secure_bytes(n).unwrap(), encode, truncate
secure_string(n, f) ==
    LET r == secure_bytes(n, f)
    IN  IF r.kind # "Ok" THEN Panic("unwrap")
        ELSE LET d == bs58_encode(r.val)
             IN  Ok(IF n > 0 /\ Len(d) > n THEN Truncate(d, n) ELSE d)

\* tmp_path(n, sfx)
tmp_path(n, sfx, f, dir) ==
    LET s == secure_string(n, f)
    IN  IF s.kind # "Ok" THEN s
        ELSE LET p == PathJoin(dir, s.val \o UnwrapOrEmpty(sfx))
             IN  IF IsUtf8(p) THEN Ok(p) ELSE Panic("unwrap")

\* a tmp_path that creates the file it names
tmp_path_fs_creating(files, p) == files \cup {p}

\* tmp_path touches no file
tmp_path_fs(files, p) == files

secure_u8(f) == IF f.ok THEN Ok(f.d[1]) ELSE Err(FillFailed)
secure_h160(f) == IF f.ok THEN Ok(H_from_slice(f.d)) ELSE Err(FillFailed)
secure_h256(f) == IF f.ok THEN Ok(H_from_slice(f.d)) ELSE Err(FillFailed)
secure_u256(f) == IF f.ok THEN Ok(U256_from_big_endian(f.d)) ELSE Err(FillFailed)

----------------------------------------------------------------------------
(* The public functions of lib.rs *)

SecureOps == {"secure_bytes", "secure_string", "tmp_path",
              "secure_u8", "secure_h160", "secure_h256", "secure_u256"}
NonSecureOps == {"usize", "u8", "u16", "u32", "u64"}
SizedOps == {"secure_bytes", "secure_string", "tmp_path"}

NoOp == [name |-> "none", n |-> 0, sfx |-> None]

\* secure_u8 mistaken for u8
GeneratorMixedUp(name) ==
    IF name \in SecureOps \ {"secure_u8"} THEN "SystemRandom" ELSE "ThreadRng"

\* the generator a function draws from: secure_random() or rand::thread_rng()
Generator(name) ==
    IF name \in SecureOps THEN "SystemRandom" ELSE "ThreadRng"

\* how many random bytes a call asks for
ByteLen(o) ==
    CASE o.name \in SizedOps -> o.n
      [] o.name \in {"secure_u8", "u8"} -> 1
      [] o.name = "u16" -> 2
      [] o.name = "u32" -> 4
      [] o.name \in {"u64", "usize"} -> U64Len
      [] o.name = "secure_h160" -> H160Len
      [] o.name = "secure_h256" -> H256Len
      [] o.name = "secure_u256" -> U256Len

\* a buffer one byte too long
AllocBufTooLong(o) == VecZeroed(ByteLen(o) + 1)

\* let mut d: Vec<u8> = vec![0u8; ..]
AllocBuf(o) == VecZeroed(ByteLen(o))

\* what the function hands back once fill has answered f
SecureResult(o, f, dir) ==
    CASE o.name = "secure_bytes" -> secure_bytes(o.n, f)
      [] o.name = "secure_string" -> secure_string(o.n, f)
      [] o.name = "tmp_path" -> tmp_path(o.n, o.sfx, f, dir)
      [] o.name = "secure_u8" -> secure_u8(f)
      [] o.name = "secure_h160" -> secure_h160(f)
      [] o.name = "secure_h256" -> secure_h256(f)
      [] o.name = "secure_u256" -> secure_u256(f)

\* the calls a caller can make, with sizes from Ns and suffixes from Sfxs
Calls(Ns, Sfxs) ==
    {[name |-> nm, n |-> k, sfx |-> None] : nm \in {"secure_bytes", "secure_string"}, k \in Ns}
    \cup {[name |-> "tmp_path", n |-> k, sfx |-> x] : k \in Ns, x \in Sfxs}
    \cup {[name |-> nm, n |-> 0, sfx |-> None] : nm \in (SecureOps \ SizedOps) \cup NonSecureOps}

----------------------------------------------------------------------------
(* Steps of a thread *)

\* a thread calls one of the public functions
Call(t, Ns, Sfxs) ==
    /\ pc[t] = "idle"
    /\ \E o \in Calls(Ns, Sfxs) :
          /\ op' = [op EXCEPT ![t] = o]
          /\ pc' = [pc EXCEPT ![t] =
                IF Generator(o.name) = "SystemRandom" THEN "call_once" ELSE "thread_rng"]
    /\ UNCHANGED <<once, cell, inits, got, buf, ret, used, fills, tmp_dir, fs, xfer, cmds>>

\* a Once that does not tell a running initialization from none
OnceEnterRacy(state) ==
    CASE state = "COMPLETE" -> [once |-> "COMPLETE", pc |-> "deref"]
      [] state \in {"INCOMPLETE", "RUNNING"} -> [once |-> "RUNNING", pc |-> "init"]

\* Once::call_once as a thread enters it: done already, or this thread
\* takes the initialization, or another thread is running it
OnceEnter(state) ==
    CASE state = "COMPLETE" -> [once |-> "COMPLETE", pc |-> "deref"]
      [] state = "INCOMPLETE" -> [once |-> "RUNNING", pc |-> "init"]
      [] state = "RUNNING" -> [once |-> "RUNNING", pc |-> "wait"]

\* secure_random(): RANDOM.deref() enters the Once
OnceCall(t) ==
    /\ pc[t] = "call_once"
    /\ once' = OnceEnter(once).once
    /\ pc' = [pc EXCEPT ![t] = OnceEnter(once).pc]
    /\ UNCHANGED <<cell, inits, op, got, buf, ret, used, fills, tmp_dir, fs, xfer, cmds>>

\* the initializer: RANDOM = SystemRandom::new()
OnceInit(t) ==
    /\ pc[t] = "init"
    /\ inits' = inits + 1
    /\ cell' = inits + 1
    /\ pc' = [pc EXCEPT ![t] = "finish_init"]
    /\ UNCHANGED <<once, op, got, buf, ret, used, fills, tmp_dir, fs, xfer, cmds>>

\* the initializing thread marks the Once complete and wakes the waiters
OnceFinish(t) ==
    /\ pc[t] = "finish_init"
    /\ once' = "COMPLETE"
    /\ pc' = [pc EXCEPT ![t] = "deref"]
    /\ UNCHANGED <<cell, inits, op, got, buf, ret, used, fills, tmp_dir, fs, xfer, cmds>>

\* a waiting thread goes on once the Once is complete
OnceWake(t) ==
    /\ pc[t] = "wait"
    /\ once = "COMPLETE"
    /\ pc' = [pc EXCEPT ![t] = "deref"]
    /\ UNCHANGED <<once, cell, inits, op, got, buf, ret, used, fills, tmp_dir, fs, xfer, cmds>>

\* reading the cell after call_once: the handle; a cell still None is
\* unreachable_unchecked, after which the thread holds garbage (-1) or dies
Deref(t) ==
    /\ pc[t] = "deref"
    /\ \/ /\ cell # 0
          /\ got' = [got EXCEPT ![t] = cell]
          /\ pc' = [pc EXCEPT ![t] = "fill"]
          /\ ret' = ret
       \/ /\ cell = 0
          /\ \E crash \in BOOLEAN :
                /\ got' = [got EXCEPT ![t] = -1]
                /\ pc' = [pc EXCEPT ![t] = IF crash THEN "panicked" ELSE "fill"]
                /\ ret' = [ret EXCEPT ![t] = IF crash THEN Panic("uninit") ELSE @]
    /\ UNCHANGED <<once, cell, inits, op, buf, used, fills, tmp_dir, fs, xfer, cmds>>

\* secure_random().fill(&mut d), and the rest of the function: the bytes drawn
\* come from B
Fill(t, B) ==
    /\ pc[t] = "fill"
    /\ LET d == AllocBuf(op[t])
       IN  \E f \in {[ok |-> FALSE, d |-> d]} \cup {[ok |-> TRUE, d |-> x] : x \in FillOutcomes(d, B)} :
             LET r == SecureResult(op[t], f, tmp_dir)
             IN  /\ buf' = [buf EXCEPT ![t] = f.d]
                 /\ fills' = [fills EXCEPT ![t] = Append(@, IF f.ok THEN "ok" ELSE "failed")]
                 /\ ret' = [ret EXCEPT ![t] = r]
                 /\ pc' = [pc EXCEPT ![t] = IF r.kind = "Panic" THEN "panicked" ELSE "done"]
                 /\ fs' = IF op[t].name = "tmp_path" /\ r.kind = "Ok"
                          THEN tmp_path_fs(fs, r.val) ELSE fs
    /\ used' = [used EXCEPT ![t] = @ \cup {"SystemRandom"}]
    /\ UNCHANGED <<once, cell, inits, op, got, tmp_dir, xfer, cmds>>

\* rand::thread_rng().gen(): the value as its bytes, least significant first
Gen(t, B) ==
    /\ pc[t] = "thread_rng"
    /\ \E x \in FillOutcomes(AllocBuf(op[t]), B) :
          /\ buf' = [buf EXCEPT ![t] = x]
          /\ ret' = [ret EXCEPT ![t] = Ok(x)]
    /\ used' = [used EXCEPT ![t] = @ \cup {"ThreadRng"}]
    /\ pc' = [pc EXCEPT ![t] = "done"]
    /\ UNCHANGED <<once, cell, inits, op, got, fills, tmp_dir, fs, xfer, cmds>>

\* the caller takes the result; the thread is free for its next call
Return(t) ==
    /\ pc[t] = "done"
    /\ pc' = [pc EXCEPT ![t] = "idle"]
    /\ op' = [op EXCEPT ![t] = NoOp]
    /\ got' = [got EXCEPT ![t] = 0]
    /\ buf' = [buf EXCEPT ![t] = <<>>]
    /\ ret' = [ret EXCEPT ![t] = NoRet]
    /\ used' = [used EXCEPT ![t] = {}]
    /\ fills' = [fills EXCEPT ![t] = <<>>]
    /\ UNCHANGED <<once, cell, inits, tmp_dir, fs, xfer, cmds>>

----------------------------------------------------------------------------
(* Inputs *)

Zstd == <<".", "z", "s", "t", "d">>
\* suffixes: none, a file extension, and one that starts a new path
Suffixes == {None, Some(Zstd), Some(<<Sep, "x">>)}
Sizes == (0..MaxN) \cup {TestLen}

\* temp directories: plain, with a trailing separator, and not valid UTF-8
TempDirs == {<<Sep, "t">>, <<Sep, "t", Sep>>, <<Sep, NonUtf8>>}
ExistingFile == <<Sep, "e">>

IdleXfer == [pc |-> "idle"]

RandInit(T) ==
    /\ once = "INCOMPLETE"
    /\ cell = 0
    /\ inits = 0
    /\ pc = [t \in T |-> "idle"]
    /\ op = [t \in T |-> NoOp]
    /\ got = [t \in T |-> 0]
    /\ buf = [t \in T |-> <<>>]
    /\ ret = [t \in T |-> NoRet]
    /\ used = [t \in T |-> {}]
    /\ fills = [t \in T |-> <<>>]
    /\ xfer = IdleXfer
    /\ cmds = <<>>

(* One caller, every input *)
Init ==
    /\ RandInit({MainThread})
    /\ tmp_dir \in TempDirs
    /\ fs \in {{}, {ExistingFile}}

Next ==
    \/ Call(MainThread, Sizes, Suffixes)
    \/ OnceCall(MainThread)
    \/ OnceInit(MainThread)
    \/ OnceFinish(MainThread)
    \/ Deref(MainThread)
    \/ Fill(MainThread, ByteVals)
    \/ Gen(MainThread, ByteVals)
    \/ Return(MainThread)

Spec == Init /\ [][Next]_vars

(* Concurrent callers; the values drawn are kept few *)
ConcSizes == {0, 1}
ConcSuffixes == {None}
ConcByteVals == {0}

ConcInit ==
    /\ RandInit(Threads)
    /\ tmp_dir = <<Sep, "t">>
    /\ fs = {}

Step(t) ==
    \/ OnceCall(t)
    \/ OnceInit(t)
    \/ OnceFinish(t)
    \/ OnceWake(t)
    \/ Deref(t)
    \/ Fill(t, ConcByteVals)
    \/ Gen(t, ConcByteVals)
    \/ Return(t)

ConcNext == \E t \in Threads : Call(t, ConcSizes, ConcSuffixes) \/ Step(t)

ConcSpec == ConcInit /\ [][ConcNext]_vars

\* every thread that can take a step of its call eventually takes one
FairSpec == ConcSpec /\ \A t \in Threads : WF_vars(Step(t))

----------------------------------------------------------------------------
(* Properties of lib.rs *)

Callers == DOMAIN pc

Returned(t, name) == pc[t] = "done" /\ op[t].name = name

\* C1: whenever secure_string(n) returns, whatever the n bytes drawn were
\* (leading zero bytes included), the string has exactly n characters; for
\* n = 0 it is the empty string.
C1_SecureStringLength ==
    \A t \in Callers :
        Returned(t, "secure_string") =>
            /\ Len(buf[t]) = op[t].n
            /\ Len(ret[t].val) = op[t].n
            /\ op[t].n = 0 => ret[t].val = <<>>

\* secure_string(2) has returned after drawing a zero byte and then 255
C1_Witness ==
    \E t \in Callers :
        /\ Returned(t, "secure_string")
        /\ buf[t] = <<0, 255>>
        /\ ret[t] = Ok(<<"1", "5">>)

\* C2: when the fill fails, every secure-path function ends with an error
\* result after exactly one fill attempt, and does not panic.
C2_FailureIsReturned ==
    \A t \in Callers :
        (fills[t] # <<>> /\ fills[t][Len(fills[t])] = "failed") =>
            /\ pc[t] = "done"
            /\ ret[t].kind = "Err"
            /\ Len(fills[t]) = 1

\* C3: the initializer runs at most once, and every handle secure_random()
\* has handed out is the one handle built, handed out after the Once was
\* complete.
C3_InitOnce ==
    /\ inits <= 1
    /\ \A t \in Callers :
          got[t] # 0 => (got[t] = 1 /\ cell = 1 /\ inits = 1 /\ once = "COMPLETE")

\* two threads hold the handle at the same time, both from the first use
C3_Witness ==
    \E t, u \in Callers :
        /\ t # u
        /\ pc[t] = "fill" /\ got[t] = 1
        /\ pc[u] = "fill" /\ got[u] = 1
        /\ inits = 1

\* C4: under fair scheduling every thread that has called a function
\* eventually returns from it, with a value or an error.
C4_EveryCallReturns ==
    \A t \in Threads : (pc[t] # "idle") ~> (pc[t] = "done" /\ ret[t].kind \in {"Ok", "Err"})

\* the part of C4 about the Once alone: a thread inside secure_random()
\* eventually leaves it holding the handle
OnceNeverBlocks ==
    \A t \in Threads :
        (pc[t] \in {"call_once", "wait", "init", "finish_init", "deref"}) ~> (pc[t] = "fill")

\* C5: when the fill succeeds, secure_bytes(n) returns Ok with exactly n
\* bytes; for n = 0, Ok with the empty sequence.
C5_SecureBytesLength ==
    \A t \in Callers :
        (Returned(t, "secure_bytes") /\ fills[t] = <<"ok">>) =>
            /\ ret[t].kind = "Ok"
            /\ Len(ret[t].val) = op[t].n
            /\ op[t].n = 0 => ret[t].val = <<>>

\* secure_bytes(2) has returned two bytes
C5_Witness ==
    \E t \in Callers :
        /\ Returned(t, "secure_bytes")
        /\ op[t].n = 2
        /\ ret[t] = Ok(<<58, 0>>)

\* C6: a secure-path call draws from the secure handle alone, and has drawn
\* from it whenever it ends; a non-secure call never enters secure_random(),
\* never holds the handle, draws from the thread-local generator alone and
\* ends with a value.
C6_Routing ==
    \A t \in Callers :
        /\ op[t].name \in SecureOps =>
              /\ used[t] \subseteq {"SystemRandom"}
              /\ pc[t] # "thread_rng"
              /\ pc[t] = "done" => (used[t] = {"SystemRandom"} /\ got[t] = cell /\ cell # 0)
        /\ op[t].name \in NonSecureOps =>
              /\ used[t] \subseteq {"ThreadRng"}
              /\ got[t] = 0
              /\ fills[t] = <<>>
              /\ pc[t] \in {"thread_rng", "done"}
              /\ pc[t] = "done" => (used[t] = {"ThreadRng"} /\ ret[t].kind = "Ok")

\* a secure call and a non-secure call have both ended
C6_Witness ==
    \E t, u \in Callers :
        /\ Returned(t, "secure_u8") /\ ret[t].kind = "Ok" /\ used[t] = {"SystemRandom"}
        /\ Returned(u, "u8") /\ used[u] = {"ThreadRng"}

\* C7: the value secure_u256 returns is the big-endian reading of the 32
\* bytes drawn: its base-256 digit of weight 256^(31-i) is byte i, so its
\* value is sum(byte[i] * 256^(31-i)) (compared here modulo Modulus as well).
C7_BigEndian ==
    \A t \in Callers :
        (Returned(t, "secure_u256") /\ ret[t].kind = "Ok") =>
            /\ Len(buf[t]) = U256Len
            /\ \A i \in 0..31 : U256Digit(ret[t].val, 31 - i) = buf[t][i + 1]
            /\ U256ValueMod(ret[t].val) = BigEndianValueMod(buf[t])

\* secure_u256 has returned for the bytes 1, 255, ..., 255: the top digit of
\* the value is 1 and its lowest is 255
C7_Witness ==
    \E t \in Callers :
        /\ Returned(t, "secure_u256")
        /\ ret[t].kind = "Ok"
        /\ buf[t][1] = 1 /\ buf[t][2] = 255 /\ buf[t][32] = 255
        /\ U256Digit(ret[t].val, 31) = 1
        /\ U256Digit(ret[t].val, 0) = 255

\* the temp directory as a prefix: a separator is added when it has none
DirPrefix(dir) == IF dir[Len(dir)] = Sep THEN dir ELSE dir \o <<Sep>>

\* the path is directly the prefix followed by n base58 characters and sfx
IsRandomNameIn(path, dir, n, sfx) ==
    LET pre == DirPrefix(dir)
        name == SubSeq(path, Len(pre) + 1, Len(path))
    IN  /\ Len(path) = Len(pre) + n + Len(sfx)
        /\ SubSeq(path, 1, Len(pre)) = pre
        /\ \A i \in 1..n : name[i] \in B58Chars
        /\ SubSeq(name, n + 1, Len(name)) = sfx

\* what a tmp_path call that has returned handed back
TmpPathShape ==
    \A t \in Callers :
        (Returned(t, "tmp_path") /\ ret[t].kind = "Ok") =>
            LET sfx == UnwrapOrEmpty(op[t].sfx)
            IN  IF op[t].n = 0 /\ sfx # <<>> /\ Head(sfx) = Sep
                THEN ret[t].val = sfx
                ELSE IsRandomNameIn(ret[t].val, tmp_dir, op[t].n, sfx)

----------------------------------------------------------------------------
(* ssh/aws.rs: Command::download_file and Command::download_directory *)

LocalPaths == {"a", "b"}
Downloads == {"download_file", "download_directory"}

\* the local rm and the scp of each function
RmCmd(fn) == IF fn = "download_file" THEN "rm -f" ELSE "rm -rf"
ScpCmd(fn) == IF fn = "download_file" THEN "scp" ELSE "scp -r"
Noun(fn) == IF fn = "download_file" THEN "file" ELSE "directory"

Ran(c, okay) == [cmd |-> c, ok |-> okay]

\* a guard that refuses when overwriting was asked for
AlreadyExistsInverted(exists, overwrite) == exists /\ overwrite

\* Path::new(local).exists() && !overwrite
AlreadyExists(exists, overwrite) == exists /\ ~overwrite

\* a download that trusts scp's exit status
VerifyDownloadTrusting(fn, exists) == Ok("out")

\* after scp: Ok(out) if the local path exists, an error otherwise
VerifyDownload(fn, exists) ==
    IF exists THEN Ok("out") ELSE Err(<<Noun(fn), "does not exist">>)

\* download_file / download_directory is called
DlCall ==
    /\ xfer.pc = "idle"
    /\ \E fn \in Downloads, p \in LocalPaths, ow \in BOOLEAN :
          xfer' = [pc |-> "check", fn |-> fn, local |-> p, overwrite |-> ow,
                   before |-> fs, ret |-> NoRet]
    /\ cmds' = <<>>
    /\ UNCHANGED <<once, cell, inits, pc, op, got, buf, ret, used, fills, tmp_dir, fs>>

\* the existence check that opens the function
DlCheck ==
    /\ xfer.pc = "check"
    /\ xfer' =
          IF AlreadyExists(xfer.local \in fs, xfer.overwrite)
          THEN [xfer EXCEPT !.pc = "done", !.ret = Err(<<Noun(xfer.fn), "already exists">>)]
          ELSE [xfer EXCEPT !.pc = IF xfer.overwrite THEN "rm" ELSE "scp"]
    /\ UNCHANGED <<once, cell, inits, pc, op, got, buf, ret, used, fills, tmp_dir, fs, cmds>>

\* command_manager::run("rm -f local || true")?: the command may not run at
\* all (an error, returned at once); when it runs it removes the path or,
\* failing quietly, leaves it
DlRm ==
    /\ xfer.pc = "rm"
    /\ \E okay \in BOOLEAN, removed \in BOOLEAN :
          /\ cmds' = Append(cmds, Ran(RmCmd(xfer.fn), okay))
          /\ fs' = IF okay /\ removed THEN fs \ {xfer.local} ELSE fs
          /\ xfer' = IF okay THEN [xfer EXCEPT !.pc = "scp"]
                     ELSE [xfer EXCEPT !.pc = "done", !.ret = Err(<<"run", RmCmd(xfer.fn)>>)]
    /\ UNCHANGED <<once, cell, inits, pc, op, got, buf, ret, used, fills, tmp_dir>>

\* command_manager::run("chmod 400 key && scp ... local")?: whether or not
\* the command succeeds, the local path may or may not be there afterwards
DlScp ==
    /\ xfer.pc = "scp"
    /\ \E okay \in BOOLEAN, created \in BOOLEAN :
          /\ cmds' = Append(cmds, Ran(ScpCmd(xfer.fn), okay))
          /\ fs' = IF created THEN fs \cup {xfer.local} ELSE fs
          /\ xfer' = IF okay THEN [xfer EXCEPT !.pc = "verify"]
                     ELSE [xfer EXCEPT !.pc = "done", !.ret = Err(<<"run", ScpCmd(xfer.fn)>>)]
    /\ UNCHANGED <<once, cell, inits, pc, op, got, buf, ret, used, fills, tmp_dir>>

\* the existence check that closes the function
DlVerify ==
    /\ xfer.pc = "verify"
    /\ xfer' = [xfer EXCEPT !.pc = "done", !.ret = VerifyDownload(xfer.fn, xfer.local \in fs)]
    /\ UNCHANGED <<once, cell, inits, pc, op, got, buf, ret, used, fills, tmp_dir, fs, cmds>>

\* the caller takes the result
DlReturn ==
    /\ xfer.pc = "done"
    /\ xfer' = IdleXfer
    /\ cmds' = <<>>
    /\ UNCHANGED <<once, cell, inits, pc, op, got, buf, ret, used, fills, tmp_dir, fs>>

ScpInit ==
    /\ RandInit({MainThread})
    /\ tmp_dir = <<Sep, "t">>
    /\ fs \in SUBSET LocalPaths

ScpNext == DlCall \/ DlCheck \/ DlRm \/ DlScp \/ DlVerify \/ DlReturn

ScpSpec == ScpInit /\ [][ScpNext]_vars

----------------------------------------------------------------------------
(* Properties of ssh/aws.rs *)

InCall == xfer.pc # "idle"
Finished == xfer.pc = "done"

CmdNames == [i \in 1..Len(cmds) |-> cmds[i].cmd]
RanScpOk == \E i \in 1..Len(cmds) : cmds[i] = Ran(ScpCmd(xfer.fn), TRUE)

\* C9: a download returns Ok only if scp has run and the local path exists
\* afterwards; when scp ran without error and the path is not there, it
\* returns the "does not exist" error; scp runs at most once and no command
\* follows it.
C9_DownloadVerified ==
    InCall =>
        /\ (Finished /\ xfer.ret.kind = "Ok") => (RanScpOk /\ xfer.local \in fs)
        /\ (Finished /\ RanScpOk /\ xfer.local \notin fs) =>
              xfer.ret = Err(<<Noun(xfer.fn), "does not exist">>)
        /\ \A i \in 1..Len(cmds) : cmds[i].cmd = ScpCmd(xfer.fn) => i = Len(cmds)

\* scp ended without error, the local path is not there, the call failed
C9_Witness ==
    /\ Finished
    /\ cmds = <<Ran("scp", TRUE)>>
    /\ xfer.local \notin fs
    /\ xfer.ret = Err(<<"file", "does not exist">>)

\* C10: with overwrite false and the local path present at the call, the
\* download ends with "already exists", has run no command and has left the
\* files as they were; the commands run are always rm first and only when
\* overwrite is true, then scp, and a finished call with overwrite true has
\* run rm.
C10_OverwriteGuard ==
    InCall =>
        /\ (Finished /\ ~xfer.overwrite /\ xfer.local \in xfer.before) =>
              /\ xfer.ret = Err(<<Noun(xfer.fn), "already exists">>)
              /\ cmds = <<>>
              /\ fs = xfer.before
        /\ (~xfer.overwrite /\ xfer.local \in xfer.before) => (cmds = <<>> /\ fs = xfer.before)
        /\ CmdNames \in
              IF xfer.overwrite
              THEN {<<>>, <<RmCmd(xfer.fn)>>, <<RmCmd(xfer.fn), ScpCmd(xfer.fn)>>}
              ELSE {<<>>, <<ScpCmd(xfer.fn)>>}
        /\ (Finished /\ xfer.overwrite) => (cmds # <<>> /\ cmds[1].cmd = RmCmd(xfer.fn))

\* download_directory without overwrite onto an existing path has failed
C10_Witness ==
    /\ Finished
    /\ xfer.fn = "download_directory"
    /\ ~xfer.overwrite
    /\ xfer.local \in xfer.before
    /\ xfer.ret = Err(<<"directory", "already exists">>)
    /\ cmds = <<>>

\* a download with overwrite has run rm and then scp
C10_WitnessOverwrite ==
    /\ Finished
    /\ xfer.overwrite
    /\ xfer.local \in xfer.before
    /\ CmdNames = <<"rm -f", "scp">>
    /\ xfer.ret.kind = "Ok"

----------------------------------------------------------------------------
(* ssh/aws.rs: Command::send_file and Command::send_directory *)

Sends == {"send_file", "send_directory"}

\* the external command of each step: the remote rm and the remote ls go
\* through ssh, and both functions remove with rm -f
SendCmd(fn, step) ==
    CASE step = "rm" -> "ssh sudo rm -f"
      [] step = "scp" -> IF fn = "send_file" THEN "scp" ELSE "scp -r"
      [] step = "ls" -> "ssh ls"

\* the commands of a whole call, in the order of the function's text
SendPlan(fn, overwrite) ==
    (IF overwrite THEN <<SendCmd(fn, "rm")>> ELSE <<>>)
        \o <<SendCmd(fn, "scp"), SendCmd(fn, "ls")>>

\* !Path::new(local).exists()
MissingLocal(exists) == ~exists

\* a run whose error is dropped instead of returned
SendAfterDroppingErrors(step, okay) ==
    CASE step = "rm" -> "scp"
      [] step = "scp" -> "ls"
      [] step = "ls" -> "done"

\* command_manager::run(..)?: an error ends the function, success goes on to
\* the next statement
SendAfter(step, okay) ==
    IF ~okay THEN "done"
    ELSE CASE step = "rm" -> "scp"
           [] step = "scp" -> "ls"
           [] step = "ls" -> "done"

\* send_file / send_directory is called
SdCall ==
    /\ xfer.pc = "idle"
    /\ \E fn \in Sends, p \in LocalPaths, ow \in BOOLEAN :
          xfer' = [pc |-> "check", fn |-> fn, local |-> p, overwrite |-> ow,
                   before |-> fs, ret |-> NoRet]
    /\ cmds' = <<>>
    /\ UNCHANGED <<once, cell, inits, pc, op, got, buf, ret, used, fills, tmp_dir, fs>>

\* the existence check that opens the function (both functions say "file")
SdCheck ==
    /\ xfer.pc = "check"
    /\ xfer' =
          IF MissingLocal(xfer.local \in fs)
          THEN [xfer EXCEPT !.pc = "done", !.ret = Err(<<"file", "does not exist">>)]
          ELSE [xfer EXCEPT !.pc = IF xfer.overwrite THEN "rm" ELSE "scp"]
    /\ UNCHANGED <<once, cell, inits, pc, op, got, buf, ret, used, fills, tmp_dir, fs, cmds>>

\* one external command of the call and the `?` after it; a call that ends
\* after the last command hands back the scp's output
SdRun(step) ==
    /\ xfer.pc = step
    /\ \E okay \in BOOLEAN :
          LET c == SendCmd(xfer.fn, step)
              nxt == SendAfter(step, okay)
          IN  /\ cmds' = Append(cmds, Ran(c, okay))
              /\ xfer' = [xfer EXCEPT !.pc = nxt,
                              !.ret = IF nxt # "done" THEN @
                                      ELSE IF okay THEN Ok("out") ELSE Err(<<"run", c>>)]
    /\ UNCHANGED <<once, cell, inits, pc, op, got, buf, ret, used, fills, tmp_dir, fs>>

\* the remote rm, run when overwrite is true
SdRm == SdRun("rm")

\* the scp upload
SdScp == SdRun("scp")

\* the remote ls that verifies the upload
SdLs == SdRun("ls")

\* the caller takes the result
SdReturn ==
    /\ xfer.pc = "done"
    /\ xfer' = IdleXfer
    /\ cmds' = <<>>
    /\ UNCHANGED <<once, cell, inits, pc, op, got, buf, ret, used, fills, tmp_dir, fs>>

SendInit ==
    /\ RandInit({MainThread})
    /\ tmp_dir = <<Sep, "t">>
    /\ fs \in SUBSET LocalPaths

SendNext == SdCall \/ SdCheck \/ SdRm \/ SdScp \/ SdLs \/ SdReturn

SendSpec == SendInit /\ [][SendNext]_vars

----------------------------------------------------------------------------
(* Properties of send_file and send_directory *)

IsPrefix(a, b) == Len(a) <= Len(b) /\ SubSeq(b, 1, Len(a)) = a

\* C11: the commands a send has run are always the first commands of: the
\* remote rm (only when overwrite is true), the scp, the remote ls, in that
\* order and after the local existence check; a command that failed is the
\* last one run and the call has ended with an error; with the local path
\* missing no command is run and the call ends with an error; Ok is handed
\* back only when every command of the order, down to the ls, has succeeded.
C11_SendOrder ==
    InCall =>
        /\ IsPrefix(CmdNames, SendPlan(xfer.fn, xfer.overwrite))
        /\ xfer.pc = "check" => cmds = <<>>
        /\ \A i \in 1..Len(cmds) :
              ~cmds[i].ok => (i = Len(cmds) /\ Finished /\ xfer.ret.kind = "Err")
        /\ xfer.local \notin xfer.before =>
              /\ cmds = <<>>
              /\ Finished => xfer.ret = Err(<<"file", "does not exist">>)
        /\ (Finished /\ xfer.ret.kind = "Ok") =>
              /\ CmdNames = SendPlan(xfer.fn, xfer.overwrite)
              /\ \A i \in 1..Len(cmds) : cmds[i].ok
              /\ xfer.local \in xfer.before
        /\ Finished => xfer.ret.kind \in {"Ok", "Err"}
        /\ fs = xfer.before

\* send_directory with overwrite has run rm, scp -r and ls, and returned Ok
C11_Witness ==
    /\ Finished
    /\ xfer.fn = "send_directory"
    /\ xfer.ret = Ok("out")
    /\ cmds = <<Ran("ssh sudo rm -f", TRUE), Ran("scp -r", TRUE), Ran("ssh ls", TRUE)>>

\* a send whose scp failed has ended without running ls
C11_WitnessFailedScp ==
    /\ Finished
    /\ xfer.fn = "send_file"
    /\ xfer.ret.kind = "Err"
    /\ cmds = <<Ran("scp", FALSE)>>

\* a send of a missing local path has ended without running anything
C11_WitnessMissing ==
    /\ Finished
    /\ xfer.local \notin xfer.before
    /\ xfer.ret = Err(<<"file", "does not exist">>)
    /\ cmds = <<>>

============================================================================
